---- MODULE Spec2Model ----
(***************************************************************************)
(* Model of DiceBluffEnv (src/blufpoker_env.py): the round state machine   *)
(* of a three-dice bluffing game.  One action per handler reached from     *)
(* step(), plus reset().  Rewards are kept in hundredths so that they are  *)
(* integers (0.05 -> 5, -0.5 -> -50, -1.0 -> -100).                        *)
(***************************************************************************)
EXTENDS Integers, Sequences, FiniteSets, TLC

\* ---- program constants (src/blufpoker_env.py:7-18) ----
NUM_DICE == 3
MAX_DIE_VALUE == 6
MAX_NORMAL_DECLARE == 666
POKER_VALUE == MAX_NORMAL_DECLARE + 1

REWARD_SURVIVE == 5
REWARD_CATCH_BLUFF == 5
PENALTY_LOSE_ROUND == -100
PENALTY_INVALID == -50

\* class Phase
DECLARE == 0
BELIEVE == 1
THROW == 2
POKER == 3

\* class ActionType
ACT_BELIEVE == 0
ACT_DOUBT == 1
THROW_START == 2
DECLARE_START == 66

\* ---- bounds of the model ----
\* number of players the instance is constructed with (the code allows 3..8)
num_players == 3
\* faces the random source is allowed to produce (at most MAX_DIE_VALUE)
MaxFace == 2
\* step() is not offered in POKER once poker_attempts has reached this cap
MaxPokerAttempts == 4
\* the number of states of the modelled random generator
RngModulus == 16
\* the seeds handed to reset(seed=...) are 0..MaxSeed
MaxSeed == 1
\* the calls two instances make on their own before they are reset together
MaxFreeCalls == 3

Faces == {f \in 1..MAX_DIE_VALUE : f <= MaxFace}
Dice == 1..NUM_DICE
Players == 0..(num_players - 1)

\* ---- action ids offered by the caller ----
ThrowIds == THROW_START..(DECLARE_START - 1)
\* Throw ids whose three sub-actions are all Keep+Hide (0) or Roll+Show (3):
\* one id for each of the eight reroll masks, the two ends of the range included
MaskIds == {THROW_START + 48 * x + 12 * y + 3 * z : x, y, z \in {0, 1}}
\* declared values the caller tries: 0, a normal value (id 200), the largest
\* normal value, the triple sentinel and one past it
DeclareProbe == {0, 134, MAX_NORMAL_DECLARE, POKER_VALUE, POKER_VALUE + 1}
DeclareIds == {DECLARE_START + v : v \in DeclareProbe}
\* ids tried in every phase: one below the action range, and 200
FarIds == {-1, 200}
\* the ids offered to step() in phase ph: ids of the type the phase expects,
\* the two ids next to that range, and the ids tried in every phase
Offered(ph) ==
    CASE ph = BELIEVE -> {ACT_BELIEVE, ACT_DOUBT} \cup {THROW_START} \cup FarIds
      [] ph = THROW -> ThrowIds \cup {ACT_DOUBT, DECLARE_START} \cup FarIds
      [] ph = POKER -> MaskIds \cup {ACT_DOUBT, DECLARE_START} \cup FarIds
      [] ph = DECLARE -> DeclareIds \cup {DECLARE_START - 1} \cup FarIds
ActionIds == UNION {Offered(ph) : ph \in {DECLARE, BELIEVE, THROW, POKER}}

NoAction == -99
NoPlayer == -1

VARIABLES
    phase,                \* self.phase
    current_player,       \* self.current_player
    dice,                 \* self.dice, a triple over 1..6
    cup_mask,             \* self.cup_mask, 1 = hidden, 0 = visible
    declared_value,       \* self.declared_value
    prev_declared_value,  \* self.prev_declared_value
    poker_attempts,       \* self.poker_attempts
    loser,                \* self.loser
    call,                 \* the last call: "reset" or the handler step() took
    action,               \* the action id of the last step() (NoAction after reset)
    from_phase,           \* the phase in which the last step() was taken
    reroll_mask,          \* the mask the last call handed to _roll_dice
    reward,               \* reward returned by the last step()
    terminated,           \* terminated flag returned by the last step()
    declarer,             \* the player who made the latest accepted declaration
    round_over,           \* a step has returned terminated = true since the last reset
    ever_terminated,      \* a step has returned terminated = true since construction
    obs,                  \* the observation returned by the last call
    aux                   \* the argument and result of a pure function under test

engine == <<phase, current_player, dice, cup_mask, declared_value,
            prev_declared_value, poker_attempts, loser>>
vars == <<phase, current_player, dice, cup_mask, declared_value,
          prev_declared_value, poker_attempts, loser,
          call, action, from_phase, reroll_mask, reward, terminated, declarer,
          round_over, ever_terminated, obs, aux>>

\* every variable but aux
mainvars == <<phase, current_player, dice, cup_mask, declared_value,
              prev_declared_value, poker_attempts, loser,
              call, action, from_phase, reroll_mask, reward, terminated, declarer,
              round_over, ever_terminated, obs>>

\* ---- pure helpers ----
AllTrue == <<TRUE, TRUE, TRUE>>
AllFalse == <<FALSE, FALSE, FALSE>>

\* sum(mask)
MaskCount(mask) == Cardinality({i \in Dice : mask[i]})

\* roll_idx at position i: the number of true entries left of i
RollIdx(mask, i) == Cardinality({j \in Dice : j < i /\ mask[j]})

\* _roll_dice(mask), rolls being the values drawn from the random source
RollDice(mask, rolls, old) ==
    [i \in Dice |-> IF mask[i] THEN rolls[RollIdx(mask, i) + 1] ELSE old[i]]

\* the draws of one call: one value per true entry of the mask
Draws(mask) == [1..MaskCount(mask) -> Faces]

Max2(a, b) == IF a >= b THEN a ELSE b
Min2(a, b) == IF a <= b THEN a ELSE b

\* sorted(dice) without reverse=True
SortedDesc_Ascending(d) ==
    LET hi == Max2(d[1], Max2(d[2], d[3]))
        lo == Min2(d[1], Min2(d[2], d[3]))
        mid == d[1] + d[2] + d[3] - hi - lo
    IN <<lo, mid, hi>>

\* sorted(dice, reverse=True)
SortedDesc(d) ==
    LET hi == Max2(d[1], Max2(d[2], d[3]))
        lo == Min2(d[1], Min2(d[2], d[3]))
        mid == d[1] + d[2] + d[3] - hi - lo
    IN <<hi, mid, lo>>

\* _calculate_value comparing only the first two dice for a triple
CalculateValue_PairIsTriple(d) ==
    IF d[1] = d[2] THEN POKER_VALUE
    ELSE LET s == SortedDesc(d) IN s[1] * 100 + s[2] * 10 + s[3]

\* _calculate_value(dice)
CalculateValue(d) ==
    IF d[1] = d[2] /\ d[2] = d[3] THEN POKER_VALUE
    ELSE LET s == SortedDesc(d) IN s[1] * 100 + s[2] * 10 + s[3]

RECURSIVE Pow4(_)
Pow4(n) == IF n = 0 THEN 1 ELSE 4 * Pow4(n - 1)

\* the decoding loop dividing once before the first digit is taken
DecodeDieActions_Shifted(a) ==
    LET rel_action == a - THROW_START
    IN [i \in Dice |-> (rel_action \div Pow4(i)) % 4]

\* the decoding loop of _handle_throw: die_actions[i] is the i-th digit
\* extracted by % 4 and // 4 (index 0 of the code is index 1 here)
DecodeDieActions(a) ==
    LET rel_action == a - THROW_START
    IN [i \in Dice |-> (rel_action \div Pow4(i - 1)) % 4]

\* _handle_throw without the forced Keep+Hide -> Keep+Show
CorrectDieActions_None(da) == [i \in Dice |-> da[i]]

\* using_cup_for_roll and the forced Keep+Hide -> Keep+Show
CorrectDieActions(da) ==
    IF \E i \in Dice : da[i] = 2
    THEN [i \in Dice |-> IF da[i] = 0 THEN 1 ELSE da[i]]
    ELSE da

\* should_roll taking only Roll+Show for a roll
ShouldRoll_ShowOnly(da) == [i \in Dice |-> da[i] >= 3]

\* should_roll and should_hide of _handle_throw
ShouldRoll(da) == [i \in Dice |-> da[i] >= 2]
ShouldHide(da) == [i \in Dice |-> IF da[i] % 2 = 0 THEN 1 ELSE 0]

\* the decoding of the driver's decode_throw_action: the extracted digits
\* reversed, so that die 1 is the last digit extracted
DriverDieActions(a) ==
    LET rel_action == a - THROW_START
    IN [i \in Dice |-> (rel_action \div Pow4(NUM_DICE - i)) % 4]

\* _handle_poker decoding the mask on every attempt
PokerMask_NeverForced(attempts, a) ==
    LET rel_action == a - THROW_START
    IN [i \in Dice |-> ((rel_action \div Pow4(i - 1)) % 4) >= 2]

\* the reroll mask of _handle_poker for the attempt number reached
PokerMask(attempts, a) ==
    IF attempts = 1 THEN AllTrue
    ELSE LET rel_action == a - THROW_START
         IN [i \in Dice |-> ((rel_action \div Pow4(i - 1)) % 4) >= 2]

\* _is_action_valid_for_phase with the upper end of the Throw range included
IsActionValidForPhase_ThrowInclusive(ph, a) ==
    CASE ph = BELIEVE -> a \in {ACT_BELIEVE, ACT_DOUBT}
      [] ph = THROW -> THROW_START <= a /\ a <= DECLARE_START
      [] ph = DECLARE -> a >= DECLARE_START
                         /\ (a <= MAX_NORMAL_DECLARE + DECLARE_START
                             \/ a = POKER_VALUE + DECLARE_START)
      [] ph = POKER -> THROW_START <= a /\ a <= DECLARE_START
      [] OTHER -> FALSE

\* _is_action_valid_for_phase(action)
IsActionValidForPhase(ph, a) ==
    CASE ph = BELIEVE -> a \in {ACT_BELIEVE, ACT_DOUBT}
      [] ph = THROW -> THROW_START <= a /\ a < DECLARE_START
      [] ph = DECLARE -> a >= DECLARE_START
                         /\ (a <= MAX_NORMAL_DECLARE + DECLARE_START
                             \/ a = POKER_VALUE + DECLARE_START)
      [] ph = POKER -> THROW_START <= a /\ a < DECLARE_START
      [] OTHER -> FALSE

\* val = action - ActionType.DECLARE_START (_handle_declare)
DecodeDeclare(a) == a - DECLARE_START

\* action = ActionType.DECLARE_START + declare_val (run_test_game)
EncodeDeclare(v) == DECLARE_START + v

\* the size of action_space: the ids are 0..ActionSpaceSize-1
ActionSpaceSize == DECLARE_START + MAX_NORMAL_DECLARE + 2

\* _handle_declare accepting a value equal to the previous declaration
DeclareAccepted_NotStrict(val, prev) ==
    IF val < prev THEN FALSE
    ELSE IF val > MAX_NORMAL_DECLARE /\ val # POKER_VALUE THEN FALSE
    ELSE TRUE

\* _handle_declare accepting any value different from the previous declaration
DeclareAccepted_Different(val, prev) ==
    IF val = prev THEN FALSE
    ELSE IF val > MAX_NORMAL_DECLARE /\ val # POKER_VALUE THEN FALSE
    ELSE TRUE

\* the two tests of _handle_declare: TRUE when the declaration is accepted
DeclareAccepted(val, prev) ==
    IF val <= prev THEN FALSE
    ELSE IF val > MAX_NORMAL_DECLARE /\ val # POKER_VALUE THEN FALSE
    ELSE TRUE

\* the next player, stopping at the last player instead of wrapping around
NextPlayer_NoWrap(p) == IF p + 1 = num_players THEN p ELSE p + 1

\* the next player, modulo num_players (_handle_declare)
NextPlayer(p) == (p + 1) % num_players

\* the previous player, modulo num_players (_handle_believe, Doubt)
PrevPlayer(p) == (p - 1) % num_players

\* is_bluff counting a rank equal to the declaration as a bluff
IsBluff_OrEqual(actual_val, declared) == actual_val <= declared

\* is_bluff of _handle_believe
IsBluff(actual_val, declared) == actual_val < declared

\* a Believe that opens the poker sub-game for every declaration
BelieveNextPhase_AlwaysPoker(declared) == IF declared >= 0 THEN POKER ELSE THROW

\* the phase and the reward a Believe leads to (_handle_believe)
BelieveNextPhase(declared) == IF declared = POKER_VALUE THEN POKER ELSE THROW
BelieveReward_Always(declared) == IF declared > POKER_VALUE THEN 0 ELSE REWARD_SURVIVE
BelieveReward(declared) == IF declared = POKER_VALUE THEN 0 ELSE REWARD_SURVIVE

\* the attempt limit of _handle_poker, one attempt late
PokerFailed_Late(attempts) == attempts > 3

\* the attempt limit of _handle_poker
PokerFailed(attempts) == attempts >= 3

\* _get_obs() masking concealed dice in every phase
ObsDice_AlwaysMasked == [i \in Dice |-> IF cup_mask[i] = 1 THEN 0 ELSE dice[i]]

\* _get_obs(): the dice as observed
ObsDice == [i \in Dice |-> IF phase = BELIEVE /\ cup_mask[i] = 1 THEN 0 ELSE dice[i]]

\* _get_obs(): the record returned to the caller
Obs ==
    [dice |-> ObsDice,
     cup_mask |-> cup_mask,
     declared_value |-> declared_value,
     prev_declared_value |-> prev_declared_value,
     phase |-> phase,
     player_index |-> current_player,
     poker_attempt |-> poker_attempts]

\* reset(): the player who starts the round, always player 0
StartingPlayer_Zero(prev_loser) == prev_loser - prev_loser

\* reset(): the player who starts the round, the player after the loser
StartingPlayer_AfterLoser(prev_loser) == (prev_loser + 1) % num_players

\* reset(): the player who starts the round (self.current_player = self.loser)
StartingPlayer(prev_loser) == prev_loser

\* the value of aux while no pure function is under test
NoAux == "none"

TypeOK ==
    /\ phase \in {DECLARE, BELIEVE, THROW, POKER}
    /\ current_player \in Players
    /\ loser \in Players
    /\ dice \in [Dice -> Faces]
    /\ cup_mask \in [Dice -> {0, 1}]
    /\ declared_value \in 0..POKER_VALUE
    /\ prev_declared_value \in 0..POKER_VALUE
    /\ poker_attempts \in 0..MaxPokerAttempts
    /\ terminated \in BOOLEAN
    /\ round_over \in BOOLEAN
    /\ terminated => round_over
    /\ ever_terminated \in BOOLEAN
    /\ round_over => ever_terminated
    /\ obs = Obs

\* ---- __init__ followed by its reset() ----
Init ==
    /\ loser = 0
    /\ current_player = 0
    /\ dice \in [Dice -> Faces]
    /\ cup_mask = [i \in Dice |-> 1]
    /\ declared_value = 0
    /\ prev_declared_value = 0
    /\ phase = DECLARE
    /\ poker_attempts = 0
    /\ call = "reset"
    /\ action = NoAction
    /\ from_phase = DECLARE
    /\ reroll_mask = AllTrue
    /\ reward = 0
    /\ terminated = FALSE
    /\ declarer = NoPlayer
    /\ round_over = FALSE
    /\ ever_terminated = FALSE
    /\ obs = Obs
    /\ aux = NoAux

\* the engine right after construction with dice (1,1,1), left untouched while
\* a pure function is under test
MainIdle ==
    /\ loser = 0
    /\ current_player = 0
    /\ dice = <<1, 1, 1>>
    /\ cup_mask = [i \in Dice |-> 1]
    /\ declared_value = 0
    /\ prev_declared_value = 0
    /\ phase = DECLARE
    /\ poker_attempts = 0
    /\ call = "reset"
    /\ action = NoAction
    /\ from_phase = DECLARE
    /\ reroll_mask = AllTrue
    /\ reward = 0
    /\ terminated = FALSE
    /\ declarer = NoPlayer
    /\ round_over = FALSE
    /\ ever_terminated = FALSE
    /\ obs = Obs

\* ---- reset() ----
Reset ==
    /\ current_player' = StartingPlayer(loser)
    /\ \E rolls \in Draws(AllTrue) : dice' = RollDice(AllTrue, rolls, dice)
    /\ cup_mask' = [i \in Dice |-> 1]
    /\ declared_value' = 0
    /\ prev_declared_value' = 0
    /\ phase' = DECLARE
    /\ poker_attempts' = 0
    /\ call' = "reset"
    /\ action' = NoAction
    /\ from_phase' = DECLARE
    /\ reroll_mask' = AllTrue
    /\ reward' = 0
    /\ terminated' = FALSE
    /\ declarer' = NoPlayer
    /\ round_over' = FALSE
    /\ UNCHANGED <<loser, ever_terminated, aux>>
    /\ obs' = Obs'

\* ---- step(): the action is not valid for the phase ----
StepInvalid(a) ==
    /\ ~IsActionValidForPhase(phase, a)
    /\ call' = "invalid"
    /\ action' = a
    /\ from_phase' = phase
    /\ reroll_mask' = AllFalse
    /\ reward' = PENALTY_INVALID
    /\ terminated' = FALSE
    /\ UNCHANGED <<engine, declarer, round_over, ever_terminated, aux>>
    /\ obs' = Obs'

\* ---- step() in BELIEVE: _handle_believe ----
StepBelieve(a) ==
    /\ IsActionValidForPhase(phase, a)
    /\ phase = BELIEVE
    /\ action' = a
    /\ from_phase' = phase
    /\ reroll_mask' = AllFalse
    /\ IF a = ACT_DOUBT
       THEN LET actual_val == CalculateValue(dice)
                is_bluff == IsBluff(actual_val, declared_value)
            IN /\ call' = "doubt"
               /\ cup_mask' = [i \in Dice |-> 0]
               /\ IF is_bluff
                  THEN /\ loser' = PrevPlayer(current_player)
                       /\ reward' = REWARD_CATCH_BLUFF
                  ELSE /\ loser' = current_player
                       /\ reward' = PENALTY_LOSE_ROUND
               /\ terminated' = TRUE
               /\ UNCHANGED <<phase, poker_attempts>>
       ELSE /\ call' = "believe"
            /\ phase' = BelieveNextPhase(declared_value)
            /\ reward' = BelieveReward(declared_value)
            /\ IF declared_value = POKER_VALUE
               THEN poker_attempts' = 0
               ELSE UNCHANGED poker_attempts
            /\ terminated' = FALSE
            /\ UNCHANGED <<cup_mask, loser>>
    /\ round_over' = (round_over \/ terminated')
    /\ ever_terminated' = (ever_terminated \/ terminated')
    /\ UNCHANGED <<current_player, dice, declared_value, prev_declared_value, declarer, aux>>
    /\ obs' = Obs'

\* ---- step() in THROW: _handle_throw ----
StepThrow(a) ==
    /\ IsActionValidForPhase(phase, a)
    /\ phase = THROW
    /\ LET die_actions == CorrectDieActions(DecodeDieActions(a))
           mask == ShouldRoll(die_actions)
       IN /\ cup_mask' = ShouldHide(die_actions)
          /\ \E rolls \in Draws(mask) : dice' = RollDice(mask, rolls, dice)
          /\ reroll_mask' = mask
    /\ phase' = DECLARE
    /\ call' = "throw"
    /\ action' = a
    /\ from_phase' = phase
    /\ reward' = 0
    /\ terminated' = FALSE
    /\ UNCHANGED <<current_player, declared_value, prev_declared_value,
                   poker_attempts, loser, declarer, round_over, ever_terminated, aux>>
    /\ obs' = Obs'

\* ---- step() in DECLARE: _handle_declare ----
StepDeclare(a) ==
    /\ IsActionValidForPhase(phase, a)
    /\ phase = DECLARE
    /\ action' = a
    /\ from_phase' = phase
    /\ reroll_mask' = AllFalse
    /\ terminated' = FALSE
    /\ LET val == DecodeDeclare(a)
       IN IF DeclareAccepted(val, prev_declared_value)
          THEN /\ declared_value' = val
               /\ prev_declared_value' = val
               /\ current_player' = NextPlayer(current_player)
               /\ phase' = BELIEVE
               /\ declarer' = current_player
               /\ call' = "declare"
               /\ reward' = 0
          ELSE /\ call' = "invalid_declare"
               /\ reward' = PENALTY_INVALID
               /\ UNCHANGED <<declared_value, prev_declared_value,
                              current_player, phase, declarer>>
    /\ UNCHANGED <<dice, cup_mask, poker_attempts, loser, round_over,
                   ever_terminated, aux>>
    /\ obs' = Obs'

\* ---- step() in POKER: _handle_poker ----
StepPoker(a) ==
    /\ IsActionValidForPhase(phase, a)
    /\ phase = POKER
    /\ poker_attempts < MaxPokerAttempts
    /\ poker_attempts' = poker_attempts + 1
    /\ LET mask == PokerMask(poker_attempts + 1, a)
       IN /\ \E rolls \in Draws(mask) : dice' = RollDice(mask, rolls, dice)
          /\ cup_mask' = [i \in Dice |-> IF mask[i] THEN 1 ELSE cup_mask[i]]
          /\ reroll_mask' = mask
    /\ IF CalculateValue(dice') = POKER_VALUE
       THEN /\ loser' = current_player
            /\ reward' = REWARD_SURVIVE
            /\ terminated' = TRUE
       ELSE IF PokerFailed(poker_attempts')
       THEN /\ loser' = current_player
            /\ reward' = PENALTY_LOSE_ROUND
            /\ terminated' = TRUE
       ELSE /\ reward' = 0
            /\ terminated' = FALSE
            /\ UNCHANGED loser
    /\ call' = "poker"
    /\ action' = a
    /\ from_phase' = phase
    /\ round_over' = (round_over \/ terminated')
    /\ ever_terminated' = (ever_terminated \/ terminated')
    /\ UNCHANGED <<phase, current_player, declared_value, prev_declared_value, declarer, aux>>
    /\ obs' = Obs'

Step(a) ==
    \/ StepInvalid(a)
    \/ StepBelieve(a)
    \/ StepThrow(a)
    \/ StepDeclare(a)
    \/ StepPoker(a)

Next ==
    \/ Reset
    \/ \E a \in Offered(phase) : StepInvalid(a)
    \/ \E a \in Offered(phase) : StepBelieve(a)
    \/ \E a \in Offered(phase) : StepThrow(a)
    \/ \E a \in Offered(phase) : StepDeclare(a)
    \/ \E a \in Offered(phase) : StepPoker(a)

Spec == Init /\ [][Next]_vars

\* ---- _calculate_value applied to every dice triple ----
NoResult == -1
DiceTriples == [Dice -> 1..MAX_DIE_VALUE]
DicePerms == Permutations(Dice)

InitRank ==
    /\ MainIdle
    /\ aux \in {[fn |-> "rank", arg |-> d, res |-> NoResult, before |-> NoResult] :
                 d \in DiceTriples}

\* rank the triple
RankApply ==
    /\ aux.fn = "rank" /\ aux.res = NoResult
    /\ aux' = [aux EXCEPT !.res = CalculateValue(aux.arg)]
    /\ UNCHANGED mainvars

\* reorder the ranked triple and rank it again
RankPermuted ==
    /\ aux.fn = "rank" /\ aux.res # NoResult
    /\ \E p \in DicePerms :
         LET d == [i \in Dice |-> aux.arg[p[i]]]
         IN aux' = [fn |-> "rank", arg |-> d, res |-> CalculateValue(d), before |-> aux.res]
    /\ UNCHANGED mainvars

NextRank == RankApply \/ RankPermuted

SpecRank == InitRank /\ [][NextRank]_vars

\* ---- the action codec applied to every id of the action space ----
InitCodec ==
    /\ MainIdle
    /\ aux \in {[fn |-> "codec", id |-> a, stage |-> "id"] : a \in 0..(ActionSpaceSize - 1)}

\* the phases whose legality test takes the id, and its decoding
CodecDecode ==
    /\ aux.fn = "codec" /\ aux.stage = "id"
    /\ aux' = [fn |-> "codec", id |-> aux.id, stage |-> "decoded",
               types |-> {ph \in {BELIEVE, THROW, DECLARE} : IsActionValidForPhase(ph, aux.id)},
               die_actions |-> IF IsActionValidForPhase(THROW, aux.id)
                               THEN DecodeDieActions(aux.id) ELSE <<>>,
               val |-> IF IsActionValidForPhase(DECLARE, aux.id)
                       THEN DecodeDeclare(aux.id) ELSE NoResult]
    /\ UNCHANGED mainvars

\* a decoded Declare value is encoded again
CodecEncode ==
    /\ aux.fn = "codec" /\ aux.stage = "decoded" /\ aux.val # NoResult
    /\ aux' = [fn |-> "codec", id |-> aux.id, stage |-> "encoded",
               val |-> aux.val, again |-> EncodeDeclare(aux.val)]
    /\ UNCHANGED mainvars

NextCodec == CodecDecode \/ CodecEncode

SpecCodec == InitCodec /\ [][NextCodec]_vars

\* ---- two instances driven with the same seed and the same actions ----
\* self.np_random is modelled as a generator with RngModulus states: every
\* value requested advances the state once and is a function of the state
NoSeed == -1
RngStates == 0..(RngModulus - 1)
Seeds == 0..MaxSeed
RngNext(x) == (5 * x + 3) % RngModulus
RngValue(x) == ((x \div 4) % Cardinality(Faces)) + 1

RECURSIVE RngAdvance(_, _)
RngAdvance(x, k) == IF k = 0 THEN x ELSE RngAdvance(RngNext(x), k - 1)

\* self.np_random.integers(1, MAX_DIE_VALUE + 1, size=k) from state x
RngRolls(x, k) == [j \in 1..k |-> RngValue(RngAdvance(x, j - 1))]

\* super().reset(seed=seed) that never reseeds the generator
Reseed_Ignored(x, seed) == IF seed = NoSeed THEN x ELSE RngAdvance(x, 0)

\* super().reset(seed=seed): a seed replaces the generator, None keeps it
Reseed(x, seed) == IF seed = NoSeed THEN x ELSE seed % RngModulus

\* __init__ up to its reset(): x is the state default_rng() starts from
InstNew(x) ==
    [phase |-> DECLARE, current_player |-> 0, dice |-> <<1, 1, 1>>,
     cup_mask |-> [i \in Dice |-> 1], declared_value |-> 0,
     prev_declared_value |-> 0, poker_attempts |-> 0, loser |-> 0,
     rng |-> x, rng0 |-> x, mask |-> AllFalse, reward |-> 0, terminated |-> FALSE]

\* _roll_dice(mask) of instance e: the new dice and the generator after it
InstRoll(e, mask, x) ==
    [e EXCEPT !.dice = RollDice(mask, RngRolls(x, MaskCount(mask)), e.dice),
              !.rng = RngAdvance(x, MaskCount(mask)),
              !.rng0 = x,
              !.mask = mask]

\* reset(seed=seed) of instance e
InstReset(e, seed) ==
    LET r == InstRoll([e EXCEPT !.current_player = StartingPlayer(e.loser)],
                      AllTrue, Reseed(e.rng, seed))
    IN [r EXCEPT !.cup_mask = [i \in Dice |-> 1],
                 !.declared_value = 0,
                 !.prev_declared_value = 0,
                 !.phase = DECLARE,
                 !.poker_attempts = 0,
                 !.reward = 0,
                 !.terminated = FALSE]

\* _handle_believe(action) of instance e
InstBelieve(e, a) ==
    IF a = ACT_DOUBT
    THEN LET r == [e EXCEPT !.cup_mask = [i \in Dice |-> 0], !.terminated = TRUE]
         IN IF IsBluff(CalculateValue(e.dice), e.declared_value)
            THEN [r EXCEPT !.loser = PrevPlayer(e.current_player),
                           !.reward = REWARD_CATCH_BLUFF]
            ELSE [r EXCEPT !.loser = e.current_player,
                           !.reward = PENALTY_LOSE_ROUND]
    ELSE [e EXCEPT !.phase = BelieveNextPhase(e.declared_value),
                   !.poker_attempts = IF e.declared_value = POKER_VALUE
                                      THEN 0 ELSE e.poker_attempts,
                   !.reward = BelieveReward(e.declared_value),
                   !.terminated = FALSE]

\* _handle_throw(action) of instance e
InstThrow(e, a) ==
    LET die_actions == CorrectDieActions(DecodeDieActions(a))
        r == InstRoll(e, ShouldRoll(die_actions), e.rng)
    IN [r EXCEPT !.cup_mask = ShouldHide(die_actions),
                 !.phase = DECLARE,
                 !.reward = 0,
                 !.terminated = FALSE]

\* _handle_declare(action) of instance e
InstDeclare(e, a) ==
    LET val == DecodeDeclare(a)
    IN IF DeclareAccepted(val, e.prev_declared_value)
       THEN [e EXCEPT !.declared_value = val,
                      !.prev_declared_value = val,
                      !.current_player = NextPlayer(e.current_player),
                      !.phase = BELIEVE,
                      !.reward = 0,
                      !.terminated = FALSE]
       ELSE [e EXCEPT !.reward = PENALTY_INVALID, !.terminated = FALSE]

\* _handle_poker(action) of instance e
InstPoker(e, a) ==
    LET attempts == e.poker_attempts + 1
        mask == PokerMask(attempts, a)
        r == InstRoll([e EXCEPT !.poker_attempts = attempts], mask, e.rng)
        h == [r EXCEPT !.cup_mask = [i \in Dice |-> IF mask[i] THEN 1 ELSE e.cup_mask[i]]]
    IN IF CalculateValue(h.dice) = POKER_VALUE
       THEN [h EXCEPT !.loser = e.current_player, !.reward = REWARD_SURVIVE,
                      !.terminated = TRUE]
       ELSE IF PokerFailed(attempts)
       THEN [h EXCEPT !.loser = e.current_player, !.reward = PENALTY_LOSE_ROUND,
                      !.terminated = TRUE]
       ELSE [h EXCEPT !.reward = 0, !.terminated = FALSE]

\* step(action) of instance e
InstStep(e, a) ==
    LET q == [e EXCEPT !.mask = AllFalse, !.rng0 = e.rng]
    IN IF ~IsActionValidForPhase(e.phase, a)
       THEN [q EXCEPT !.reward = PENALTY_INVALID, !.terminated = FALSE]
       ELSE CASE e.phase = BELIEVE -> InstBelieve(q, a)
              [] e.phase = THROW -> InstThrow(q, a)
              [] e.phase = DECLARE -> InstDeclare(q, a)
              [] e.phase = POKER -> InstPoker(q, a)

\* the ids offered to an instance in phase ph
PairIds(ph) == IF ph = THROW THEN Offered(POKER) ELSE Offered(ph)

\* an instance may be stepped (the cap on poker_attempts of StepPoker)
InstCanStep(e, a) ==
    (e.phase = POKER /\ IsActionValidForPhase(POKER, a))
      => e.poker_attempts < MaxPokerAttempts

\* two instances are constructed, each with its own generator state
InitPair ==
    /\ MainIdle
    /\ aux \in {[fn |-> "pair", mode |-> "free", calls |-> 0, last |-> "new",
                  A |-> InstReset(InstNew(xa), NoSeed),
                  B |-> InstReset(InstNew(xb), NoSeed)] : xa, xb \in RngStates}

\* before the common reset: one instance takes a step of its own
PairFreeStep ==
    /\ aux.fn = "pair" /\ aux.mode = "free" /\ aux.calls < MaxFreeCalls
    /\ \/ \E a \in PairIds(aux.A.phase) :
            /\ InstCanStep(aux.A, a)
            /\ aux' = [aux EXCEPT !.A = InstStep(aux.A, a), !.calls = aux.calls + 1,
                                  !.last = "step"]
       \/ \E a \in PairIds(aux.B.phase) :
            /\ InstCanStep(aux.B, a)
            /\ aux' = [aux EXCEPT !.B = InstStep(aux.B, a), !.calls = aux.calls + 1,
                                  !.last = "step"]
    /\ UNCHANGED mainvars

\* before the common reset: one instance is reset without a seed
PairFreeReset ==
    /\ aux.fn = "pair" /\ aux.mode = "free" /\ aux.calls < MaxFreeCalls
    /\ \/ aux' = [aux EXCEPT !.A = InstReset(aux.A, NoSeed), !.calls = aux.calls + 1,
                              !.last = "reset"]
       \/ aux' = [aux EXCEPT !.B = InstReset(aux.B, NoSeed), !.calls = aux.calls + 1,
                              !.last = "reset"]
    /\ UNCHANGED mainvars

\* both instances are reset with the same seed
PairReset ==
    /\ aux.fn = "pair"
    /\ \E seed \in Seeds :
         aux' = [aux EXCEPT !.A = InstReset(aux.A, seed), !.B = InstReset(aux.B, seed),
                            !.mode = "sync", !.calls = 0, !.last = "reset"]
    /\ UNCHANGED mainvars

\* after the common reset: both instances take the same step
PairStep ==
    /\ aux.fn = "pair" /\ aux.mode = "sync"
    /\ \E a \in PairIds(aux.A.phase) \cup PairIds(aux.B.phase) :
         /\ InstCanStep(aux.A, a) /\ InstCanStep(aux.B, a)
         /\ aux' = [aux EXCEPT !.A = InstStep(aux.A, a), !.B = InstStep(aux.B, a),
                               !.last = "step"]
    /\ UNCHANGED mainvars

NextPair == PairFreeStep \/ PairFreeReset \/ PairReset \/ PairStep

SpecPair == InitPair /\ [][NextPair]_vars

\* ---- one caller playing rounds to their end: the loop of run_test_game ----
\* step() is called while the round has not returned terminated = true, and
\* reset() right after it has.
\* the ids the caller tries in phase ph: the accepted ids of Offered(ph) that
\* differ in effect (for a Throw id: keep all, reroll one, reroll all) and one
\* id the phase rejects
RoundIds(ph) ==
    CASE ph = BELIEVE -> {ACT_BELIEVE, ACT_DOUBT, THROW_START}
      [] ph = THROW -> {THROW_START, THROW_START + 3, DECLARE_START - 1, DECLARE_START}
      [] ph = POKER -> {THROW_START, THROW_START + 3, DECLARE_START - 1, DECLARE_START}
      [] ph = DECLARE -> DeclareIds \cup {DECLARE_START - 1}

RoundStep ==
    /\ ~round_over
    /\ \E a \in RoundIds(phase) : Step(a)

RoundReset ==
    /\ round_over
    /\ Reset

\* a step of the running round that step() does not reject
AcceptedStep ==
    /\ RoundStep
    /\ reward' # PENALTY_INVALID

NextRound ==
    \/ RoundReset
    \/ ~round_over /\ \E a \in RoundIds(phase) : StepInvalid(a)
    \/ ~round_over /\ \E a \in RoundIds(phase) : StepBelieve(a)
    \/ ~round_over /\ \E a \in RoundIds(phase) : StepThrow(a)
    \/ ~round_over /\ \E a \in RoundIds(phase) : StepDeclare(a)
    \/ ~round_over /\ \E a \in RoundIds(phase) : StepPoker(a)

\* the caller keeps supplying accepted actions: weak fairness of accepted steps
SpecRound == Init /\ [][NextRound]_vars /\ WF_vars(AcceptedStep)

\* ---- vocabulary of the properties ----
AllHidden == [i \in Dice |-> 1]
AllVisible == [i \in Dice |-> 0]

\* the transition is a step() call, and one that was not rejected
IsStep == call' # "reset"
Accepted == IsStep /\ reward' # PENALTY_INVALID
Rejected == IsStep /\ reward' = PENALTY_INVALID

\* the type of action id a matches phase ph
TypeMatches(ph, a) ==
    CASE ph = BELIEVE -> a = 0 \/ a = 1
      [] ph = THROW -> 2 <= a /\ a <= 65
      [] ph = POKER -> 2 <= a /\ a <= 65
      [] ph = DECLARE -> 66 <= a /\ a <= 66 + 667

\* C1: a step whose action id does not match the type the phase expects
\* returns the invalid penalty, does not terminate and changes no field of
\* the engine.
C1_WrongTypeRejected ==
    [][(IsStep /\ ~TypeMatches(phase, action'))
        => (reward' = PENALTY_INVALID /\ terminated' = FALSE /\ UNCHANGED engine)]_vars

\* id 200 was supplied in THROW and rejected
C1_Witness ==
    call = "invalid" /\ from_phase = THROW /\ action = 200 /\ phase = THROW
    /\ reward = PENALTY_INVALID /\ ~terminated

\* C2: in DECLARE a Declare id with value v is accepted exactly when v is
\* above prev_declared_value and is a normal value or the triple sentinel;
\* a rejected declaration returns the invalid penalty and changes no field.
C2_DeclareLegality ==
    [][(IsStep /\ phase = DECLARE /\ action' >= DECLARE_START)
        => LET v == action' - DECLARE_START
           IN IF v > prev_declared_value /\ (v <= MAX_NORMAL_DECLARE \/ v = POKER_VALUE)
              THEN /\ reward' # PENALTY_INVALID
                   /\ declared_value' = v
                   /\ phase' = BELIEVE
              ELSE /\ reward' = PENALTY_INVALID
                   /\ terminated' = FALSE
                   /\ UNCHANGED engine]_vars

\* a declaration equal to the previous one was rejected
C2_Witness ==
    call = "invalid_declare" /\ phase = DECLARE /\ action = 200
    /\ prev_declared_value = 134 /\ declared_value = 134 /\ reward = PENALTY_INVALID

\* C3: between resets declared_value never decreases, and every accepted
\* declaration is strictly above the one accepted before it in the round.
C3_DeclaredIncreasing ==
    [][IsStep => /\ declared_value' >= declared_value
                 /\ (phase = DECLARE /\ Accepted) => declared_value' > declared_value]_vars

\* a second declaration of the round was accepted (a throw came before it)
C3_Witness ==
    call = "declare" /\ declared_value = MAX_NORMAL_DECLARE /\ cup_mask # AllHidden
    /\ ~terminated

\* C4: a step changes phase only along DECLARE -> BELIEVE (accepted
\* declaration), BELIEVE -> THROW (Believe, no triple declared), BELIEVE ->
\* POKER (Believe, triple declared) and THROW -> DECLARE (accepted throw);
\* POKER is never left by a step.
C4_PhaseEdges ==
    [][IsStep =>
        /\ \/ phase' = phase
           \/ phase = DECLARE /\ phase' = BELIEVE /\ Accepted
           \/ phase = BELIEVE /\ phase' = THROW /\ action' = ACT_BELIEVE
                /\ declared_value # POKER_VALUE
           \/ phase = BELIEVE /\ phase' = POKER /\ action' = ACT_BELIEVE
                /\ declared_value = POKER_VALUE
           \/ phase = THROW /\ phase' = DECLARE /\ Accepted
        /\ (Rejected \/ phase = POKER \/ (phase = BELIEVE /\ action' = ACT_DOUBT))
             => phase' = phase]_vars

\* a poker attempt was made and phase is still POKER
C4_Witness ==
    call = "poker" /\ from_phase = POKER /\ phase = POKER /\ poker_attempts = 2

\* C5: current_player moves to the next player modulo num_players in an
\* accepted DECLARE step and is unchanged by every other step.
C5_PlayerAdvance ==
    [][IsStep => IF phase = DECLARE /\ Accepted
                 THEN current_player' = (current_player + 1) % num_players
                 ELSE current_player' = current_player]_vars

\* the last player declared and the turn wrapped around to player 0
C5_Witness ==
    call = "declare" /\ declarer = num_players - 1 /\ current_player = 0


\* C6: a Doubt in BELIEVE always terminates and reveals all dice; when the
\* rank of the dice is below declared_value the loser is the previous player,
\* who made the latest accepted declaration, and the reward is the catch-bluff
\* reward; otherwise the doubter loses and gets the lose-round penalty.
C6_Doubt ==
    [][(IsStep /\ phase = BELIEVE /\ action' = ACT_DOUBT)
        => /\ terminated' = TRUE
           /\ cup_mask' = AllVisible
           /\ IF CalculateValue(dice) < declared_value
              THEN /\ loser' = (current_player - 1) % num_players
                   /\ loser' = declarer
                   /\ reward' = REWARD_CATCH_BLUFF
              ELSE /\ loser' = current_player
                   /\ reward' = PENALTY_LOSE_ROUND]_vars

\* a bluff was doubted: the declarer of a value above the rank is the loser
C6_Witness ==
    /\ call = "doubt" /\ terminated /\ reward = REWARD_CATCH_BLUFF
    /\ CalculateValue(dice) < declared_value
    /\ loser = declarer /\ loser # current_player /\ cup_mask = AllVisible

\* C7: a Believe in BELIEVE never terminates; with the triple sentinel
\* declared it moves to POKER with poker_attempts 0 and reward 0, otherwise
\* to THROW with the survive reward; dice, concealment, current_player, the
\* declared values and loser are unchanged.
C7_Believe ==
    [][(IsStep /\ phase = BELIEVE /\ action' = ACT_BELIEVE)
        => /\ terminated' = FALSE
           /\ IF declared_value = POKER_VALUE
              THEN phase' = POKER /\ poker_attempts' = 0 /\ reward' = 0
              ELSE phase' = THROW /\ reward' = REWARD_SURVIVE
           /\ UNCHANGED <<dice, cup_mask, current_player, declared_value,
                          prev_declared_value, loser>>]_vars

\* a declared triple was believed
C7_Witness ==
    /\ call = "believe" /\ from_phase = BELIEVE /\ phase = POKER
    /\ declared_value = POKER_VALUE /\ poker_attempts = 0 /\ reward = 0 /\ ~terminated

\* some die was rerolled by the last call and is concealed while another die
\* was not rerolled and is concealed
KeepHideBesideRollHide ==
    \E i, j \in Dice : /\ i # j
                       /\ reroll_mask[i] /\ cup_mask[i] = 1
                       /\ ~reroll_mask[j] /\ cup_mask[j] = 1

\* C8 as stated: after every accepted THROW step and every accepted POKER
\* step of a round no kept die is concealed beside a rerolled, concealed die.
C8_Original ==
    [][(IsStep /\ ~round_over /\ phase \in {THROW, POKER} /\ Accepted)
        => ~KeepHideBesideRollHide']_vars

\* C8 as amended: after every accepted THROW step no kept die is concealed
\* beside a rerolled, concealed die.
C8_ThrowConstraint ==
    [][(IsStep /\ phase = THROW /\ Accepted) => ~KeepHideBesideRollHide']_vars

\* a throw rolled one die under the cup and kept the two others, which are shown
C8_Witness ==
    /\ call = "throw" /\ phase = DECLARE
    /\ \E i \in Dice : /\ reroll_mask[i] /\ cup_mask[i] = 1
                       /\ \A j \in Dice \ {i} : ~reroll_mask[j] /\ cup_mask[j] = 0
                       /\ \E j \in Dice \ {i} : DecodeDieActions(action)[j] = 0

\* C9: poker_attempts is 0 when POKER is entered, grows by exactly 1 with each
\* accepted POKER step and not with a rejected step, and the accepted step
\* that brings it to 3 returns terminated = true if no earlier step of the
\* round did.
C9_PokerBounded ==
    [][IsStep =>
        /\ (phase # POKER /\ phase' = POKER) => poker_attempts' = 0
        /\ (phase = POKER /\ Accepted)
             => /\ poker_attempts' = poker_attempts + 1
                /\ (poker_attempts' = 3 /\ ~round_over) => terminated' = TRUE
        /\ Rejected => poker_attempts' = poker_attempts]_vars

\* the third attempt failed and ended the round
C9_Witness ==
    /\ call = "poker" /\ phase = POKER /\ poker_attempts = 3
    /\ terminated /\ reward = PENALTY_LOSE_ROUND /\ loser = current_player

\* C10: an accepted POKER step terminates exactly when the dice are a triple
\* after its reroll or poker_attempts has reached 3; a triple gives the
\* survive reward, a third attempt without a triple makes current_player the
\* loser with the lose-round penalty, and otherwise the reward is 0 and phase
\* stays POKER.
C10_PokerOutcome ==
    [][(IsStep /\ phase = POKER /\ Accepted)
        => LET triple == dice'[1] = dice'[2] /\ dice'[2] = dice'[3]
               third == poker_attempts' >= 3
           IN /\ terminated' = (triple \/ third)
              /\ triple => reward' = REWARD_SURVIVE /\ reward' > 0
              /\ (~triple /\ third) => loser' = current_player /\ reward' = PENALTY_LOSE_ROUND
              /\ (~triple /\ ~third) => reward' = 0 /\ phase' = POKER /\ UNCHANGED loser]_vars

\* the second attempt produced a triple and ended the round
C10_Witness ==
    /\ call = "poker" /\ poker_attempts = 2 /\ terminated /\ reward = REWARD_SURVIVE
    /\ dice[1] = dice[2] /\ dice[2] = dice[3]


\* C11: in every state reachable through reset and step calls, and in every
\* returned observation, each field is in its declared domain: dice in 1..6
\* (observed dice in 0..6), concealment flags in {0, 1}, the declared values
\* in 0..POKER_VALUE, phase one of the four phases, current_player and loser
\* in 0..num_players-1, and poker_attempts in 0..3.
C11_Domains ==
    /\ dice \in [Dice -> 1..6]
    /\ obs.dice \in [Dice -> 0..6]
    /\ cup_mask \in [Dice -> {0, 1}]
    /\ obs.cup_mask \in [Dice -> {0, 1}]
    /\ declared_value \in 0..POKER_VALUE
    /\ prev_declared_value \in 0..POKER_VALUE
    /\ obs.declared_value \in 0..POKER_VALUE
    /\ obs.prev_declared_value \in 0..POKER_VALUE
    /\ phase \in {DECLARE, BELIEVE, THROW, POKER}
    /\ obs.phase \in {DECLARE, BELIEVE, THROW, POKER}
    /\ current_player \in 0..(num_players - 1)
    /\ obs.player_index \in 0..(num_players - 1)
    /\ loser \in 0..(num_players - 1)
    /\ poker_attempts \in 0..3
    /\ obs.poker_attempt \in 0..3

\* C12: every returned observation carries the engine's concealment; in
\* BELIEVE an observed die is 0 when concealed and the true value otherwise,
\* in every other phase the observed dice are the true dice; so the
\* observation of an accepted DECLARE shows no concealed value and the
\* observation of a Doubt shows the three true values.
C12_Observation ==
    /\ obs.cup_mask = cup_mask
    /\ phase = BELIEVE
         => \A i \in Dice : obs.dice[i] = IF cup_mask[i] = 1 THEN 0 ELSE dice[i]
    /\ phase # BELIEVE => obs.dice = dice
    /\ call = "declare" => \A i \in Dice : cup_mask[i] = 1 => obs.dice[i] = 0
    /\ call = "doubt" => obs.dice = dice

\* a declaration was accepted with one die under the cup and two dice shown
C12_Witness ==
    /\ call = "declare" /\ phase = BELIEVE
    /\ \E i \in Dice : /\ cup_mask[i] = 1 /\ obs.dice[i] = 0
                       /\ \A j \in Dice \ {i} : cup_mask[j] = 0 /\ obs.dice[j] = dice[j]

\* C13: reset, from any state, makes the current loser the current player,
\* sets phase to DECLARE, zeroes the declared values and poker_attempts, hides
\* all three dice, rerolls all three dice and leaves loser unchanged; the
\* loser is 0 as long as no round has terminated.
C13_Reset ==
    [][(call' = "reset")
        => /\ current_player' = loser
           /\ ~ever_terminated => current_player' = 0
           /\ phase' = DECLARE
           /\ declared_value' = 0 /\ prev_declared_value' = 0
           /\ poker_attempts' = 0
           /\ cup_mask' = AllHidden
           /\ reroll_mask' = <<TRUE, TRUE, TRUE>>
           /\ loser' = loser]_vars

\* a round was lost by player 2, who starts the round after the reset
C13_Witness ==
    /\ call = "reset" /\ ever_terminated /\ loser = 2 /\ current_player = 2
    /\ phase = DECLARE /\ declared_value = 0 /\ cup_mask = AllHidden


\* C15: for every triple over 1..6 the rank is the triple sentinel exactly
\* when the three values are equal, and otherwise 100a + 10b + c for the
\* values sorted a >= b >= c; the rank does not change when the triple is
\* reordered, and every rank of a non-triple is below the sentinel.
C15_Rank ==
    (aux.fn = "rank" /\ aux.res # NoResult)
      => LET d == aux.arg
             triple == d[1] = d[2] /\ d[2] = d[3]
         IN /\ (aux.res = POKER_VALUE) = triple
            /\ ~triple => /\ \E p \in DicePerms :
                               /\ d[p[1]] >= d[p[2]] /\ d[p[2]] >= d[p[3]]
                               /\ aux.res = 100 * d[p[1]] + 10 * d[p[2]] + d[p[3]]
                          /\ aux.res < POKER_VALUE
            /\ aux.before # NoResult => aux.res = aux.before

\* (2,6,4) was reordered to (4,6,2) and both rank 642
C15_Witness ==
    /\ aux.fn = "rank" /\ aux.arg = <<4, 6, 2>> /\ aux.res = 642 /\ aux.before = 642

\* the id whose base-4 digits, least significant first, are the sub-actions
Base4Id(da) == 2 + da[1] + 4 * da[2] + 16 * da[3]

SubActionTriples == [Dice -> 0..3]

\* C16: every Throw id in 2..65 decodes to a triple over {0,1,2,3} whose
\* base-4 encoding is the id again, and every such triple is the decoding of
\* exactly one Throw id; a Declare id a in 66..66+POKER_VALUE decodes to a - 66
\* and the value encodes to the same id; every id of the action space is in
\* exactly one of the ranges {0,1}, 2..65 and 66..66+POKER_VALUE.
C16_Codec ==
    (aux.fn = "codec" /\ aux.stage # "id")
      => LET a == aux.id
             inBelieve == a \in {0, 1}
             inThrow == a \in 2..65
             inDeclare == a \in 66..(66 + POKER_VALUE)
         IN /\ a \in 0..(66 + POKER_VALUE)
            /\ Cardinality({k \in 1..3 : <<inBelieve, inThrow, inDeclare>>[k]}) = 1
            /\ aux.stage = "decoded"
                 => /\ aux.types = (IF inBelieve THEN {BELIEVE}
                                    ELSE IF inThrow THEN {THROW} ELSE {DECLARE})
                    /\ inThrow => /\ aux.die_actions \in SubActionTriples
                                  /\ Base4Id(aux.die_actions) = a
                                  /\ \A b \in 2..65 :
                                       DecodeDieActions(b) = aux.die_actions => b = a
                                  /\ \A t \in SubActionTriples :
                                       \E b \in 2..65 : DecodeDieActions(b) = t
                    /\ inDeclare => aux.val = a - 66
            /\ aux.stage = "encoded" => (inDeclare /\ aux.again = a /\ aux.again = 66 + aux.val)

\* id 35 was decoded to the sub-actions (1, 0, 2), least significant digit first
C16_Witness ==
    /\ aux.fn = "codec" /\ aux.stage = "decoded" /\ aux.id = 35
    /\ aux.die_actions = <<1, 0, 2>> /\ aux.types = {THROW}


\* the sub-actions of a throw after every Keep+Hide was turned into Keep+Show
\* because some die is on Roll+Hide
Corrected(da) ==
    [i \in Dice |-> IF da[i] = 0 /\ (\E j \in Dice : da[j] = 2) THEN 1 ELSE da[i]]

\* C17: an accepted THROW step rerolls exactly the dice whose corrected
\* sub-action is Roll+Hide or Roll+Show, leaves the other dice as they were,
\* hides exactly the dice whose corrected sub-action is Keep+Hide or
\* Roll+Hide, moves to DECLARE with reward 0 and terminated = false, and
\* leaves current_player, the declared values, poker_attempts and loser
\* unchanged.
C17_Throw ==
    [][(IsStep /\ phase = THROW /\ Accepted)
        => LET c == Corrected(DecodeDieActions(action'))
           IN /\ \A i \in Dice : reroll_mask'[i] = (c[i] \in {2, 3})
              /\ \A i \in Dice : c[i] \notin {2, 3} => dice'[i] = dice[i]
              /\ \A i \in Dice : (cup_mask'[i] = 1) = (c[i] \in {0, 2})
              /\ phase' = DECLARE
              /\ reward' = 0 /\ terminated' = FALSE
              /\ UNCHANGED <<current_player, declared_value, prev_declared_value,
                             poker_attempts, loser>>]_vars

\* id 10 (sub-actions 0, 2, 0): the second die was rolled under the cup and
\* the two kept dice, asked to stay hidden, are shown
C17_Witness ==
    /\ call = "throw" /\ action = 10 /\ phase = DECLARE
    /\ reroll_mask = <<FALSE, TRUE, FALSE>> /\ cup_mask = <<0, 1, 0>>

\* C18: the engine gives each die the sub-action the driver's
\* decode_throw_action names for it (die 1 the last digit extracted, die 3 the
\* first): an accepted THROW step rerolls exactly the dice whose sub-action in
\* that order is Roll+Hide or Roll+Show; for id 35 (die 1 Roll+Hide, die 2
\* Keep+Hide, die 3 Keep+Show) it rerolls and hides the first die and keeps and
\* shows the two others.
C18_DieOrder ==
    (call = "throw")
      => /\ \A i \in Dice : reroll_mask[i] = (DriverDieActions(action)[i] \in {2, 3})
         /\ action = 35 => (reroll_mask = <<TRUE, FALSE, FALSE>> /\ cup_mask = <<1, 0, 0>>)

\* C19: the first accepted POKER attempt rerolls all three dice whatever id
\* is supplied; a later attempt rerolls exactly the dice whose sub-action is
\* Roll+Hide or Roll+Show and leaves the other values unchanged; every die
\* rerolled by a POKER attempt is concealed afterwards.
C19_PokerReroll ==
    [][(IsStep /\ phase = POKER /\ Accepted)
        => LET da == DecodeDieActions(action')
           IN /\ poker_attempts = 0 => reroll_mask' = <<TRUE, TRUE, TRUE>>
              /\ poker_attempts >= 1
                   => /\ \A i \in Dice : reroll_mask'[i] = (da[i] \in {2, 3})
                      /\ \A i \in Dice : da[i] \notin {2, 3} => dice'[i] = dice[i]
              /\ \A i \in Dice : reroll_mask'[i] => cup_mask'[i] = 1]_vars

\* the first attempt was made with id 2 (keep all three) and rolled all three
C19_Witness ==
    /\ call = "poker" /\ poker_attempts = 1 /\ action = 2
    /\ reroll_mask = <<TRUE, TRUE, TRUE>> /\ cup_mask = AllHidden /\ dice # <<1, 1, 1>>

\* C20: loser changes only in a step that returns terminated = true; reset
\* leaves it unchanged and makes it the current player.
C20_LoserFrame ==
    [][/\ loser' # loser => (IsStep /\ terminated' = TRUE)
       /\ call' = "reset" => (loser' = loser /\ current_player' = loser)]_vars

\* the declarer lost the round to a Doubt and starts the next round
C20_Witness ==
    /\ call = "reset" /\ ever_terminated /\ loser = 1 /\ current_player = 1
    /\ ~round_over


\* the fields of an instance that the caller of the same seed and actions sees
Replayed(e) ==
    <<e.dice, e.cup_mask, e.phase, e.declared_value, e.prev_declared_value,
      e.poker_attempts, e.reward, e.terminated>>

\* the last call of instance e took one draw for each true entry of its mask,
\* gave the draws to the true positions from left to right, and none to a
\* false entry
DrawsInOrder(e) ==
    LET n == Cardinality({i \in Dice : e.mask[i]})
    IN /\ e.rng = RngAdvance(e.rng0, n)
       /\ \A i \in Dice :
            e.mask[i] => e.dice[i] = RngValue(RngAdvance(e.rng0,
                                        Cardinality({j \in Dice : j < i /\ e.mask[j]})))

\* C14: two instances reset with the same seed and then given the same
\* actions agree on dice, concealment, phase, declared values, poker_attempts,
\* reward and terminated after every call, whatever they did before; every
\* roll takes one draw per true mask entry, left to right, and a rejected step
\* takes none.
C14_Replay ==
    (aux.fn = "pair")
      => /\ aux.mode = "sync" => Replayed(aux.A) = Replayed(aux.B)
         /\ DrawsInOrder(aux.A) /\ DrawsInOrder(aux.B)
         /\ \A e \in {aux.A, aux.B} :
              (aux.last = "step" /\ e.reward = PENALTY_INVALID) => e.rng = e.rng0

\* after different pasts (different losers, so different players to move) and
\* a common seed, both instances made the same partial reroll in POKER
C14_Witness ==
    /\ aux.fn = "pair" /\ aux.mode = "sync" /\ aux.last = "step"
    /\ aux.A.loser # aux.B.loser
    /\ aux.A.phase = POKER /\ aux.A.poker_attempts = 2
    /\ aux.A.mask = <<TRUE, FALSE, TRUE>>
    /\ aux.A.dice = aux.B.dice


\* C21 as stated: throughout the POKER phase current_player is the player who
\* made the believed triple declaration, and that declarer is the loser when
\* three attempts fail.
C21_Original ==
    /\ phase = POKER => current_player = declarer
    /\ (call = "poker" /\ reward = PENALTY_LOSE_ROUND) => loser = declarer

\* C21 (amended): POKER is entered only by an accepted Believe, which leaves
\* current_player alone; throughout the POKER phase current_player is the
\* player after the declarer of the believed triple, (declarer + 1) mod
\* num_players, who believed it: that believer performs the rerolls and is
\* the loser when three attempts fail.
C21_Believer ==
    [][IsStep =>
        /\ (phase # POKER /\ phase' = POKER)
             => /\ call' = "believe" /\ declared_value = POKER_VALUE
                /\ current_player' = current_player
        /\ phase' = POKER
             => /\ declarer' \in Players
                /\ current_player' = (declarer' + 1) % num_players
        /\ (phase = POKER /\ Accepted /\ reward' = PENALTY_LOSE_ROUND)
             => loser' = (declarer + 1) % num_players]_vars

\* the last player declared the triple, player 0 believed it, rolled three
\* times without a triple and lost
C21_Witness ==
    /\ call = "poker" /\ reward = PENALTY_LOSE_ROUND /\ poker_attempts = 3
    /\ declarer = num_players - 1 /\ current_player = 0 /\ loser = 0

\* C22: a round driven by a caller who keeps supplying accepted actions
\* terminates. DECLARE is never entered with prev_declared_value equal to the
\* triple sentinel, so in every state of a running round some offered action
\* is accepted; and under weak fairness of accepted steps every running round
\* reaches a step that returns terminated = true.
C22_RoundTerminates ==
    /\ [](phase = DECLARE => prev_declared_value < POKER_VALUE)
    /\ [](~round_over => ENABLED AcceptedStep)
    /\ (~round_over ~> (round_over /\ terminated))

\* a running round went through a DECLARE, BELIEVE, THROW cycle and a second
\* declaration, the largest normal value, and was ended by a Doubt that
\* caught the bluff
C22_Witness ==
    /\ call = "doubt" /\ terminated /\ round_over
    /\ declared_value = MAX_NORMAL_DECLARE /\ reward = REWARD_CATCH_BLUFF
    /\ declarer = 1 /\ current_player = 2

====
